---- MODULE Spec2Model ----
(***************************************************************************)
(* A model of the recipes of src/src/__init__.py (more-itertools).  One    *)
(* iterable x is handed to the public recipes; each public recipe is its   *)
(* argument checker followed by its unchecked body (class checker).  Lazy  *)
(* results (islice, reversed, deque iterators) are driven by Pull, one     *)
(* element per pull.                                                       *)
(***************************************************************************)
EXTENDS Integers, Sequences, FiniteSets, TLC

\* Bounds of the model.
MaxLen == 3          \* longest iterable
MaxN == 4            \* largest |n| handed to nth / head / tail / ncycles / repeatfunc
MaxArgs == 4         \* most iterables handed to roundrobin
MaxArgLen == 4       \* longest iterable handed to roundrobin
MaxPulls == 5        \* most items pulled from repeatfunc(f, None)

VARIABLES
    x,        \* the iterable: its items and what it implements
    pos,      \* items already consumed from x when x is an iterator
    call,     \* the last recipe call: name, the items x held at entry, arguments
    result,   \* what the call returned or raised
    it,       \* the state of the returned iterator, if one was returned
    out       \* the items the returned iterator has yielded so far

vars == <<x, pos, call, result, it, out>>

----------------------------------------------------------------------------
\* Python values.  bool() of a value: None, False, 0 and empty collections
\* are falsy.
IntV(k) == [t |-> "int", v |-> k]
BoolV(b) == [t |-> "bool", v |-> IF b THEN 1 ELSE 0]
NoneV == [t |-> "None", v |-> 0]
EmptyTuple == [t |-> "tuple", v |-> 0]
Exc(name) == [t |-> name, v |-> 0]

Truthy(val) == IF val.t = "None" THEN FALSE ELSE val.v # 0

Elems == {IntV(0), IntV(1), IntV(2)}
Defaults == {NoneV, BoolV(FALSE), IntV(0), EmptyTuple}

\* The varadic *args of a call: no default, one default, or (a contract
\* violation) two.
ArgsSet == {<<>>} \cup {<<d>> : d \in Defaults} \cup {<<NoneV, IntV(0)>>}

\* pred arguments: None (truthiness of the item) or a callable.
Preds == {"None", "gt1", "not_", "none", "bool"}

ApplyPred(pred, item) ==
    CASE pred = "gt1" -> BoolV(item.t = "int" /\ item.v > 1)
      [] pred = "not_" -> BoolV(~Truthy(item))
      [] pred = "none" -> NoneV
      [] pred = "bool" -> BoolV(Truthy(item))
      [] pred = "box2" -> IF item = IntV(2) THEN [t |-> "list", v |-> 2] ELSE item
      [] OTHER -> item

Ns == (0 - MaxN) .. MaxN

RECURSIVE SeqsUpTo(_)
SeqsUpTo(k) ==
    IF k = 0 THEN {<<>>}
    ELSE LET shorter == SeqsUpTo(k - 1)
         IN  shorter \cup {Append(s, e) : s \in {t \in shorter : Len(t) = k - 1}, e \in Elems}

\* What an iterable may implement: Sized (__len__), Sequence (__getitem__),
\* Reversible (__reversed__); an iterator is consumed by traversal.
Kinds ==
    {[sized |-> s, indexable |-> i, reversible |-> r, onePass |-> FALSE] :
        s \in BOOLEAN, i \in BOOLEAN, r \in BOOLEAN}
    \cup {[sized |-> FALSE, indexable |-> FALSE, reversible |-> FALSE, onePass |-> TRUE]}

\* The items a traversal of x started now would yield.
View == IF x.kind.onePass THEN SubSeq(x.items, pos + 1, Len(x.items)) ELSE x.items

----------------------------------------------------------------------------
\* Results of a call.
Value(val) == [kind |-> "value", val |-> val]
Raise(name) == [kind |-> "raise", val |-> Exc(name)]
Iter == [kind |-> "iter", val |-> NoneV]
NoResult == [kind |-> "none", val |-> NoneV]

\* The state of a returned iterator: the items it still traverses (buf), from
\* which end (rev), how many it may still yield (left, -1: no limit), whether
\* it reads from the iterator x itself (live), and whether it has signalled
\* exhaustion (done).
NoIter == [buf |-> <<>>, rev |-> FALSE, left |-> -1, live |-> FALSE, done |-> TRUE]

\* What a recipe call gives: its result, the number of items it consumed
\* from x, and the returned iterator's state.
Ret(res, used) == [res |-> res, used |-> used, it |-> NoIter]
RetIter(used, i) == [res |-> Iter, used |-> used, it |-> i]

----------------------------------------------------------------------------
\* Builtins used by the recipes.

\* reversed(s): the items s yields from its end.
Reversed(s) == [i \in 1 .. Len(s) |-> s[Len(s) + 1 - i]]

\* next(iter(s), *args)
Next_(s, args) ==
    IF s # <<>> THEN Value(Head(s))
    ELSE IF Len(args) > 0 THEN Value(args[1])
    ELSE Raise("StopIteration")

\* _check_varadics, were two varadic arguments let through
_check_varadics_AtMostTwo(args) == ~(Len(args) > 2)

\* _check_varadics(args)
_check_varadics(args) == ~(Len(args) > 1)

----------------------------------------------------------------------------
\* first

\* first, were the default tested for truth instead of for presence
first_unchecked_TruthyDefault(s, args) ==
    IF s # <<>> THEN Ret(Value(Head(s)), 1)
    ELSE IF Len(args) > 0 /\ Truthy(args[1]) THEN Ret(Value(args[1]), 0)
    ELSE Ret(Raise("ValueError"), 0)

first_unchecked(s, args) ==
    LET r == Next_(s, args)
    IN  Ret(IF r.kind = "raise" THEN Raise("ValueError") ELSE r,
            IF s # <<>> THEN 1 ELSE 0)

first(s, args) ==
    IF ~_check_varadics(args) THEN Ret(Raise("TypeError"), 0)
    ELSE first_unchecked(s, args)

----------------------------------------------------------------------------
\* last

\* the forward walk of last: item = next(it) until StopIteration
\* the forward walk, were item never reassigned
LastWalk_KeepsFirst(rest, item) == item

RECURSIVE LastWalk(_, _)
LastWalk(rest, item) ==
    IF rest = <<>> THEN item ELSE LastWalk(Tail(rest), Head(rest))

\* except StopIteration: the default if one was given, else ValueError
OnEmpty(args, error) ==
    IF Len(args) > 0 THEN Value(args[1]) ELSE Raise(error)

last_unchecked(kind, s, args) ==
    IF kind.reversible
    THEN LET r == Next_(Reversed(s), args)
         IN  Ret(IF r.kind = "raise" THEN OnEmpty(args, "ValueError") ELSE r, 0)
    ELSE IF s = <<>>
         THEN Ret(OnEmpty(args, "ValueError"), 0)
         ELSE Ret(Value(LastWalk(Tail(s), Head(s))), Len(s))

last(kind, s, args) ==
    IF ~_check_varadics(args) THEN Ret(Raise("TypeError"), 0)
    ELSE last_unchecked(kind, s, args)

----------------------------------------------------------------------------
\* nth

\* islice(s, n, None): skip n items, one at a time, as far as there are any
RECURSIVE IsliceFrom(_, _)
IsliceFrom(s, n) ==
    IF n = 0 \/ s = <<>> THEN s ELSE IsliceFrom(Tail(s), n - 1)

\* try: next(islice(s, n, None))  except StopIteration: raise IndexError
NextIslice(s, n) ==
    LET r == Next_(IsliceFrom(s, n), <<>>)
    IN  IF r.kind = "raise" THEN Raise("IndexError") ELSE r

\* tuple(s)[n], were a negative n counted from the front
TupleIndex_FromFront(s, n) ==
    IF Len(s) + n >= 0 THEN Value(s[0 - n]) ELSE Raise("IndexError")

\* tuple(s)[n] for n < 0
TupleIndex(s, n) ==
    IF Len(s) + n >= 0 THEN Value(s[Len(s) + n + 1]) ELSE Raise("IndexError")

\* the items  next(islice(s, n, None))  consumes
IsliceUsed(s, n) == IF n + 1 <= Len(s) THEN n + 1 ELSE Len(s)

\* nth, were the index from the end l-n instead of l-n-1
nth_body_OffByOne(kind, s, n) ==
    IF kind.sized
    THEN LET l == Len(s)
             m == IF n < 0 THEN n + l ELSE n
         IN  IF m < 0 \/ m >= l THEN Ret(Raise("IndexError"), 0)
             ELSE IF kind.indexable THEN Ret(Value(s[m + 1]), 0)
             ELSE IF kind.reversible /\ m >= l \div 2
                  THEN Ret(NextIslice(Reversed(s), l - m), 0)
                  ELSE Ret(NextIslice(s, m), IsliceUsed(s, m))
    ELSE IF n < 0 THEN Ret(TupleIndex(s, n), Len(s))
    ELSE Ret(NextIslice(s, n), IsliceUsed(s, n))

nth_body(kind, s, n) ==
    IF kind.sized
    THEN LET l == Len(s)
             m == IF n < 0 THEN n + l ELSE n
         IN  IF m < 0 \/ m >= l THEN Ret(Raise("IndexError"), 0)
             ELSE IF kind.indexable THEN Ret(Value(s[m + 1]), 0)
             ELSE IF kind.reversible /\ m >= l \div 2
                  THEN Ret(NextIslice(Reversed(s), l - m - 1), 0)
                  ELSE Ret(NextIslice(s, m), IsliceUsed(s, m))
    ELSE IF n < 0 THEN Ret(TupleIndex(s, n), Len(s))
    ELSE Ret(NextIslice(s, n), IsliceUsed(s, n))

\* nth, were the default ignored
nth_unchecked_NoDefault(kind, s, n, args) ==
    LET r == nth_body(kind, s, n)
    IN  IF r.res.kind = "raise" THEN Ret(Raise("IndexError"), r.used) ELSE r

nth_unchecked(kind, s, n, args) ==
    LET r == nth_body(kind, s, n)
    IN  IF r.res.kind = "raise" THEN Ret(OnEmpty(args, "IndexError"), r.used) ELSE r

nth(kind, s, n, args) ==
    IF ~_check_varadics(args) THEN Ret(Raise("TypeError"), 0)
    ELSE nth_unchecked(kind, s, n, args)

----------------------------------------------------------------------------
\* reversediter, head, tail

\* iter(s) / islice(s, n): over the iterator x itself when x is one, else
\* over a fresh traversal of x
IterOf(kind, s, left) ==
    [buf |-> IF kind.onePass THEN <<>> ELSE s, rev |-> FALSE, left |-> left,
     live |-> kind.onePass, done |-> FALSE]

\* iter(d) of a buffer the recipe built
IterBuf(d) == [buf |-> d, rev |-> FALSE, left |-> -1, live |-> FALSE, done |-> FALSE]

\* reversed(s) of a Reversible or of a tuple
IterReversed(s) == [buf |-> s, rev |-> TRUE, left |-> -1, live |-> FALSE, done |-> FALSE]

\* reversediter, were the buffered tuple traversed forward
reversediter_BufferForward(kind, s) ==
    IF kind.reversible THEN RetIter(0, IterReversed(s))
    ELSE RetIter(Len(s), IterBuf(s))

reversediter(kind, s) ==
    IF kind.reversible THEN RetIter(0, IterReversed(s))
    ELSE RetIter(Len(s), IterReversed(s))

\* islice(s, n): the first n items, as far as there are any
RECURSIVE Islice(_, _)
Islice(s, n) ==
    IF n = 0 \/ s = <<>> THEN <<>> ELSE <<Head(s)>> \o Islice(Tail(s), n - 1)

\* appendleft, were it append (extend in place of extendleft)
DequeAppendLeft_AsAppend(d, item, maxlen) ==
    IF maxlen = 0 THEN d
    ELSE IF Len(d) = maxlen THEN Append(SubSeq(d, 2, Len(d)), item)
    ELSE Append(d, item)

\* append, were the deque unbounded
DequeAppend_Unbounded(d, item, maxlen) == Append(d, item)

\* deque(maxlen).append / appendleft: a full deque drops from the other end
DequeAppend(d, item, maxlen) ==
    IF maxlen = 0 THEN d
    ELSE IF Len(d) = maxlen THEN Append(Tail(d), item)
    ELSE Append(d, item)

DequeAppendLeft(d, item, maxlen) ==
    IF maxlen = 0 THEN d
    ELSE IF Len(d) = maxlen THEN <<item>> \o SubSeq(d, 1, Len(d) - 1)
    ELSE <<item>> \o d

RECURSIVE DequeExtend(_, _, _)
DequeExtend(d, s, maxlen) ==
    IF s = <<>> THEN d
    ELSE DequeExtend(DequeAppend(d, Head(s), maxlen), Tail(s), maxlen)

RECURSIVE DequeExtendLeft(_, _, _)
DequeExtendLeft(d, s, maxlen) ==
    IF s = <<>> THEN d
    ELSE DequeExtendLeft(DequeAppendLeft(d, Head(s), maxlen), Tail(s), maxlen)

\* head, were one item too many sliced
head_unchecked_OneMore(kind, s, n) ==
    IF n >= 0 THEN RetIter(0, IterOf(kind, s, n + 1))
    ELSE LET m == 0 - n
         IN  IF kind.reversible
             THEN RetIter(0, IterBuf(DequeExtendLeft(<<>>, Islice(Reversed(s), m), m)))
             ELSE RetIter(Len(s), IterBuf(DequeExtend(<<>>, s, m)))

head_unchecked(kind, s, n) ==
    IF n >= 0 THEN RetIter(0, IterOf(kind, s, n))
    ELSE LET m == 0 - n
         IN  IF kind.reversible
             THEN RetIter(0, IterBuf(DequeExtendLeft(<<>>, Islice(Reversed(s), m), m)))
             ELSE RetIter(Len(s), IterBuf(DequeExtend(<<>>, s, m)))

head(kind, s, n) == head_unchecked(kind, s, n)

\* tail, were n handed on as it is
tail_unchecked_SameSign(kind, s, n) == head_unchecked(kind, s, n)

\* tail, were the count one short
tail_unchecked_OneLess(kind, s, n) == head_unchecked(kind, s, 1 - n)

tail_unchecked(kind, s, n) == head_unchecked(kind, s, 0 - n)

tail(kind, s, n) == tail_unchecked(kind, s, n)

----------------------------------------------------------------------------
\* first_true, first_false

\* what filter / filterfalse test: bool(item) without a predicate, else
\* bool(pred(item))
Test(pred, item) ==
    IF pred = "None" THEN Truthy(item) ELSE Truthy(ApplyPred(pred, item))

\* next(filter(pred, s)) when want, next(filterfalse(pred, s)) when not:
\* walks s until an item tests as wanted; used counts the items walked
RECURSIVE FilterNext(_, _, _, _)
FilterNext(pred, s, want, used) ==
    IF s = <<>> THEN [found |-> FALSE, val |-> NoneV, used |-> used]
    ELSE IF Test(pred, Head(s)) = want
         THEN [found |-> TRUE, val |-> Head(s), used |-> used + 1]
         ELSE FilterNext(pred, Tail(s), want, used + 1)

\* first_true, were the filter drained (next(iter(list(filter(pred, x)))))
first_true_unchecked_Drains(s, args, pred) ==
    LET f == FilterNext(pred, s, TRUE, 0)
    IN  IF f.found THEN Ret(Value(f.val), Len(s))
        ELSE Ret(OnEmpty(args, "ValueError"), Len(s))

first_true_unchecked(s, args, pred) ==
    LET f == FilterNext(pred, s, TRUE, 0)
    IN  IF f.found THEN Ret(Value(f.val), f.used)
        ELSE Ret(OnEmpty(args, "ValueError"), f.used)

first_true(s, args, pred) ==
    IF ~_check_varadics(args) THEN Ret(Raise("TypeError"), 0)
    ELSE first_true_unchecked(s, args, pred)

\* first_false, were filter used in place of filterfalse
first_false_unchecked_Filter(s, args, pred) ==
    LET f == FilterNext(pred, s, TRUE, 0)
    IN  IF f.found THEN Ret(Value(f.val), f.used)
        ELSE Ret(OnEmpty(args, "ValueError"), f.used)

first_false_unchecked(s, args, pred) ==
    LET f == FilterNext(pred, s, FALSE, 0)
    IN  IF f.found THEN Ret(Value(f.val), f.used)
        ELSE Ret(OnEmpty(args, "ValueError"), f.used)

first_false(s, args, pred) ==
    IF ~_check_varadics(args) THEN Ret(Raise("TypeError"), 0)
    ELSE first_false_unchecked(s, args, pred)

----------------------------------------------------------------------------
\* last_true, last_false

\* the items an iterator over a buffer yields
ItemsOf(i) == IF i.rev THEN Reversed(i.buf) ELSE i.buf

\* last_true, were x scanned as it is and not reversed
last_true_unchecked_Forward(kind, s, args, pred) ==
    first_true_unchecked(s, args, pred)

last_true_unchecked(kind, s, args, pred) ==
    LET r == reversediter(kind, s)
        f == first_true_unchecked(ItemsOf(r.it), args, pred)
    IN  Ret(f.res, r.used)

last_true(kind, s, args, pred) ==
    IF ~_check_varadics(args) THEN Ret(Raise("TypeError"), 0)
    ELSE last_true_unchecked(kind, s, args, pred)

last_false_unchecked(kind, s, args, pred) ==
    LET r == reversediter(kind, s)
        f == first_false_unchecked(ItemsOf(r.it), args, pred)
    IN  Ret(f.res, r.used)

last_false(kind, s, args, pred) ==
    IF ~_check_varadics(args) THEN Ret(Raise("TypeError"), 0)
    ELSE last_false_unchecked(kind, s, args, pred)

----------------------------------------------------------------------------
\* quantify

\* the loop of quantify: c += 1 for each item with a truthy pred(item)
RECURSIVE QuantifyLoop(_, _, _)
QuantifyLoop(pred, s, c) ==
    IF s = <<>> THEN c
    ELSE QuantifyLoop(pred, Tail(s),
                      IF Truthy(ApplyPred(pred, Head(s))) THEN c + 1 ELSE c)

\* quantify, were the count started at 1
quantify_unchecked_FromOne(s, pred) ==
    Ret(Value(IntV(QuantifyLoop(IF pred = "None" THEN "bool" ELSE pred, s, 1))), Len(s))

quantify_unchecked(s, pred) ==
    Ret(Value(IntV(QuantifyLoop(IF pred = "None" THEN "bool" ELSE pred, s, 0))), Len(s))

quantify(s, pred) == quantify_unchecked(s, pred)

----------------------------------------------------------------------------
\* Iterators the lazy recipes hold over x.  iter(x) of an iterator is x
\* itself (live: it reads on from pos); iter(x) of any other iterable is a
\* fresh traversal of its items (buf).
CurOf(kind, s) == [live |-> kind.onePass, buf |-> IF kind.onePass THEN <<>> ELSE s]

\* the cursor after k more items were taken from it
CurAfter(c, k) ==
    IF c.live THEN c ELSE [c EXCEPT !.buf = SubSeq(c.buf, k + 1, Len(c.buf))]

\* A lazy result that is not one of the plain iterators above.
Lazy(name) == [kind |-> name, val |-> NoneV]

----------------------------------------------------------------------------
\* partition: return filter(pred, x), filterfalse(pred, x)

partition_unchecked(kind, s, pred) ==
    [res |-> Lazy("pair"), used |-> 0,
     it |-> [t |-> CurOf(kind, s), f |-> CurOf(kind, s),
             tdone |-> FALSE, fdone |-> FALSE]]

partition(kind, s, pred) == partition_unchecked(kind, s, pred)

----------------------------------------------------------------------------
\* pairwise

pairwise_unchecked(kind, s) ==
    [res |-> Lazy("pairwise"), used |-> 0,
     it |-> [c |-> CurOf(kind, s), started |-> FALSE, prev |-> NoneV, done |-> FALSE]]

pairwise(kind, s) == pairwise_unchecked(kind, s)

\* the generator, were prev never set to current
PairwiseStep_PrevKept(started, prev, rest) ==
    LET need == IF started THEN 1 ELSE 2
        first_ == IF started THEN prev ELSE rest[1]
    IN  IF Len(rest) >= need
        THEN [found |-> TRUE, pair |-> <<first_, rest[need]>>, prev |-> first_,
              used |-> need]
        ELSE [found |-> FALSE, pair |-> <<>>, prev |-> prev, used |-> Len(rest)]

\* The generator from where it stands to its next yield: prev = next(it) the
\* first time, then current = next(it); yield prev, current; prev = current.
\* StopIteration from either next() ends it.
PairwiseStep(started, prev, rest) ==
    LET need == IF started THEN 1 ELSE 2
    IN  IF Len(rest) >= need
        THEN [found |-> TRUE,
              pair |-> <<IF started THEN prev ELSE rest[1], rest[need]>>,
              prev |-> rest[need], used |-> need]
        ELSE [found |-> FALSE, pair |-> <<>>, prev |-> prev, used |-> Len(rest)]

----------------------------------------------------------------------------
\* unique_everseen, unique_justseen

\* key arguments: None (the item itself) or a callable.
Keys == {"None", "gt1", "not_"}

KeyOf(key, item) == IF key = "None" THEN item ELSE ApplyPred(key, item)

unique_everseen_unchecked(kind, s, key) ==
    [res |-> Lazy("unique_everseen"), used |-> 0,
     it |-> [c |-> CurOf(kind, s), seen |-> {}, done |-> FALSE, raised |-> FALSE]]

unique_everseen(kind, s, key) == unique_everseen_unchecked(kind, s, key)

\* s.add(k), were it left out
SeenAdd_Forgotten(seen, k) == seen

\* s.add(item) / s.add(k)
SeenAdd(seen, k) == seen \cup {k}

\* hash(k), were every object hashable
Hashable_Any(k) == TRUE

\* hash(k) succeeds: a list has no hash
Hashable(k) == k.t # "list"

\* The generator to its next yield: the next item whose key is not in the
\* set s; used counts the items walked.  k not in s (s.__contains__(item)
\* without a key) hashes the key and raises TypeError when it has no hash.
RECURSIVE EverseenNext(_, _, _, _)
EverseenNext(key, s, seen, used) ==
    IF s = <<>>
    THEN [found |-> FALSE, raised |-> FALSE, item |-> NoneV, seen |-> seen, used |-> used]
    ELSE IF ~Hashable(KeyOf(key, Head(s)))
    THEN [found |-> FALSE, raised |-> TRUE, item |-> NoneV, seen |-> seen,
          used |-> used + 1]
    ELSE IF KeyOf(key, Head(s)) \notin seen
         THEN [found |-> TRUE, raised |-> FALSE, item |-> Head(s),
               seen |-> SeenAdd(seen, KeyOf(key, Head(s))), used |-> used + 1]
         ELSE EverseenNext(key, Tail(s), seen, used + 1)

\* map(next, map(itemgetter(1), groupby(x, key)))
unique_justseen_unchecked(kind, s, key) ==
    [res |-> Lazy("unique_justseen"), used |-> 0,
     it |-> [c |-> CurOf(kind, s), started |-> FALSE, tgtkey |-> NoneV, done |-> FALSE,
             raised |-> FALSE]]

unique_justseen(kind, s, key) == unique_justseen_unchecked(kind, s, key)

\* groupby, were every item the start of a group
JustseenNext_NoSkip(key, s, started, tgtkey, used) ==
    IF s = <<>> THEN [found |-> FALSE, item |-> NoneV, tgtkey |-> tgtkey, used |-> used]
    ELSE [found |-> TRUE, item |-> Head(s), tgtkey |-> KeyOf(key, Head(s)),
          used |-> used + 1]

\* groupby to its next group and next() of that group: items are read while
\* their key equals the key of the group before; the first other item opens
\* the group and is what next(group) yields.  Keys are compared with ==,
\* never hashed.
RECURSIVE JustseenNext(_, _, _, _, _)
JustseenNext(key, s, started, tgtkey, used) ==
    IF s = <<>> THEN [found |-> FALSE, item |-> NoneV, tgtkey |-> tgtkey, used |-> used]
    ELSE IF started /\ KeyOf(key, Head(s)) = tgtkey
         THEN JustseenNext(key, Tail(s), started, tgtkey, used + 1)
         ELSE [found |-> TRUE, item |-> Head(s), tgtkey |-> KeyOf(key, Head(s)),
               used |-> used + 1]

----------------------------------------------------------------------------
\* ncycles

\* _check_quantity(n)
_check_quantity(n) == ~(n < 0)

\* isinstance(x, Collection): Sized, Iterable and Container; the iterables
\* with a length are the containers here (list, tuple, str, set, dict).
IsCollection(kind) == kind.sized

ncycles_unchecked(kind, s, n) ==
    [res |-> Lazy("ncycles"), used |-> 0,
     it |-> [c |-> CurOf(kind, s), full |-> <<>>, k |-> 0, started |-> FALSE,
             done |-> FALSE]]

ncycles(kind, s, n) ==
    IF ~_check_quantity(n) THEN Ret(Raise("TypeError"), 0)
    ELSE ncycles_unchecked(kind, s, n)

\* later cycles, were an iterator x traversed again and not its tuple
NcReplay_Unbuffered(kind, s) == IF kind.onePass THEN <<>> ELSE s

\* What iter(x) yields in each cycle after the first when n > 1: x is by
\* then a Collection or the tuple built from it.
NcReplay(kind, s) == s

\* The generator from its start to the first loop: nothing to traverse for
\* n = 0, iter(x) for n = 1, else x or tuple(x), which consumes an iterator.
NcStart(kind, s, n) ==
    IF n = 0 THEN [c |-> [live |-> FALSE, buf |-> <<>>], full |-> <<>>, used |-> 0]
    ELSE IF n = 1 THEN [c |-> CurOf(kind, s), full |-> <<>>, used |-> 0]
    ELSE [c |-> [live |-> FALSE, buf |-> s], full |-> NcReplay(kind, s),
          used |-> IF IsCollection(kind) THEN 0 ELSE Len(s)]

\* for k in range(n): yield from iter(x), from where the generator stands to
\* its next yield
RECURSIVE NcNext(_, _, _, _)
NcNext(k, buf, full, n) ==
    IF buf # <<>> THEN [found |-> TRUE, item |-> Head(buf), buf |-> Tail(buf), k |-> k]
    ELSE IF k + 1 < n THEN NcNext(k + 1, full, full, n)
    ELSE [found |-> FALSE, item |-> NoneV, buf |-> <<>>, k |-> k]

----------------------------------------------------------------------------
\* length

\* c = 0; for item in x: c += 1
RECURSIVE LengthLoop(_, _)
LengthLoop(s, c) == IF s = <<>> THEN c ELSE LengthLoop(Tail(s), c + 1)

\* length, were len(x) taken for granted (an x without __len__ counted as empty)
length_unchecked_NoCount(kind, s) ==
    IF kind.sized THEN Ret(Value(IntV(Len(s))), 0)
    ELSE Ret(Value(IntV(0)), 0)

length_unchecked(kind, s) ==
    IF kind.sized THEN Ret(Value(IntV(Len(s))), 0)
    ELSE Ret(Value(IntV(LengthLoop(s, 0))), Len(s))

length(kind, s) == length_unchecked(kind, s)

----------------------------------------------------------------------------
\* prepend, append

\* stage: 0 until the value was yielded, 1 after
prepend_unchecked(value, kind, s) ==
    [res |-> Lazy("prepend"), used |-> 0,
     it |-> [c |-> CurOf(kind, s), stage |-> 0, done |-> FALSE]]

prepend(value, kind, s) == prepend_unchecked(value, kind, s)

append_unchecked(kind, s, value) ==
    [res |-> Lazy("append"), used |-> 0,
     it |-> [c |-> CurOf(kind, s), stage |-> 0, done |-> FALSE]]

append(kind, s, value) == append_unchecked(kind, s, value)

\* append to its next yield: yield from x; yield value
AppendNext(stage, value, rest) ==
    IF stage = 0 /\ rest # <<>>
    THEN [found |-> TRUE, item |-> Head(rest), used |-> 1, stage |-> 0]
    ELSE IF stage = 0 THEN [found |-> TRUE, item |-> value, used |-> 0, stage |-> 1]
    ELSE [found |-> FALSE, item |-> NoneV, used |-> 0, stage |-> 1]

\* prepend, were the value yielded after x
PrependNext_ValueLast(stage, value, rest) == AppendNext(stage, value, rest)

\* prepend to its next yield: yield value; yield from x
PrependNext(stage, value, rest) ==
    IF stage = 0 THEN [found |-> TRUE, item |-> value, used |-> 0, stage |-> 1]
    ELSE IF rest # <<>>
    THEN [found |-> TRUE, item |-> Head(rest), used |-> 1, stage |-> 1]
    ELSE [found |-> FALSE, item |-> NoneV, used |-> 0, stage |-> 1]

----------------------------------------------------------------------------
NoCall == [op |-> "none", S |-> <<>>, n |-> 0, args |-> <<>>, pred |-> "None"]

Init ==
    /\ x \in {[items |-> s, kind |-> k] : s \in SeqsUpTo(MaxLen), k \in Kinds}
    /\ pos = 0
    /\ call = NoCall
    /\ result = NoResult
    /\ it = NoIter
    /\ out = <<>>

\* A call made by a caller that holds no result: the record of the call, its
\* result, what it consumed.
Do(op, n, args, pred, r) ==
    /\ call.op = NoCall.op
    /\ call' = [op |-> op, S |-> View, n |-> n, args |-> args, pred |-> pred]
    /\ result' = r.res
    /\ pos' = IF x.kind.onePass THEN pos + r.used ELSE pos
    /\ it' = r.it
    /\ out' = <<>>
    /\ UNCHANGED x

CallFirst ==
    \E args \in ArgsSet : Do("first", 0, args, "None", first(View, args))

CallLast ==
    \E args \in ArgsSet : Do("last", 0, args, "None", last(x.kind, View, args))

CallNth ==
    \E n \in Ns, args \in ArgsSet :
        Do("nth", n, args, "None", nth(x.kind, View, n, args))

CallReversediter ==
    Do("reversediter", 0, <<>>, "None", reversediter(x.kind, View))

CallHead ==
    \E n \in Ns : Do("head", n, <<>>, "None", head(x.kind, View, n))

CallTail ==
    \E n \in Ns : Do("tail", n, <<>>, "None", tail(x.kind, View, n))

CallFirstTrue ==
    \E args \in ArgsSet, pred \in Preds :
        Do("first_true", 0, args, pred, first_true(View, args, pred))

CallFirstFalse ==
    \E args \in ArgsSet, pred \in Preds :
        Do("first_false", 0, args, pred, first_false(View, args, pred))

CallLastTrue ==
    \E args \in ArgsSet, pred \in Preds :
        Do("last_true", 0, args, pred, last_true(x.kind, View, args, pred))

CallLastFalse ==
    \E args \in ArgsSet, pred \in Preds :
        Do("last_false", 0, args, pred, last_false(x.kind, View, args, pred))

CallQuantify ==
    \E pred \in Preds : Do("quantify", 0, <<>>, pred, quantify(View, pred))

\* One next() on the returned iterator: it yields an item or signals
\* exhaustion (StopIteration).
Yield(item, buf, used) ==
    /\ out' = Append(out, item)
    /\ it' = [it EXCEPT !.buf = buf, !.left = IF it.left > 0 THEN it.left - 1 ELSE it.left]
    /\ pos' = pos + used

Stop ==
    /\ it' = [it EXCEPT !.done = TRUE]
    /\ UNCHANGED <<out, pos>>

Pull ==
    /\ result.kind = "iter"
    /\ ~it.done
    /\ IF it.left = 0 THEN Stop
       ELSE IF it.live
            THEN IF pos < Len(x.items) THEN Yield(x.items[pos + 1], it.buf, 1) ELSE Stop
       ELSE IF it.buf = <<>> THEN Stop
       ELSE IF it.rev
            THEN Yield(it.buf[Len(it.buf)], SubSeq(it.buf, 1, Len(it.buf) - 1), 0)
            ELSE Yield(Head(it.buf), Tail(it.buf), 0)
    /\ UNCHANGED <<x, call, result>>

\* The items the cursor c would still yield.
Rest(c) == IF c.live THEN View ELSE c.buf

\* One next() on one of the two iterators partition returned: filter (want)
\* or filterfalse (not want) walks its iterator over x to the next item that
\* tests as wanted, or to the end.
PullPartition(want) ==
    /\ result.kind = "pair"
    /\ ~(IF want THEN it.tdone ELSE it.fdone)
    /\ LET c == IF want THEN it.t ELSE it.f
           f == FilterNext(call.pred, Rest(c), want, 0)
       IN  /\ out' = IF f.found THEN Append(out, [h |-> want, item |-> f.val]) ELSE out
           /\ it' = IF want
                    THEN [it EXCEPT !.t = CurAfter(c, f.used), !.tdone = ~f.found]
                    ELSE [it EXCEPT !.f = CurAfter(c, f.used), !.fdone = ~f.found]
           /\ pos' = IF c.live THEN pos + f.used ELSE pos
    /\ UNCHANGED <<x, call, result>>

PullTrue == PullPartition(TRUE)

PullFalse == PullPartition(FALSE)

CallPartition ==
    \E pred \in Preds : Do("partition", 0, <<>>, pred, partition(x.kind, View, pred))

CallPairwise == Do("pairwise", 0, <<>>, "None", pairwise(x.kind, View))

\* One next() on the generator pairwise returned.
PullPairwise ==
    /\ result.kind = "pairwise"
    /\ ~it.done
    /\ LET st == PairwiseStep(it.started, it.prev, Rest(it.c))
       IN  /\ out' = IF st.found THEN Append(out, st.pair) ELSE out
           /\ it' = [it EXCEPT !.c = CurAfter(it.c, st.used), !.started = TRUE,
                               !.prev = st.prev, !.done = ~st.found]
           /\ pos' = IF it.c.live THEN pos + st.used ELSE pos
    /\ UNCHANGED <<x, call, result>>

CallUniqueEverseen ==
    \E key \in Keys :
        Do("unique_everseen", 0, <<>>, key, unique_everseen(x.kind, View, key))

\* One next() on the generator unique_everseen returned: an item,
\* StopIteration, or the TypeError of a key without a hash, which ends the
\* generator.
PullUniqueEverseen ==
    /\ result.kind = "unique_everseen"
    /\ ~it.done
    /\ LET st == EverseenNext(call.pred, Rest(it.c), it.seen, 0)
       IN  /\ out' = IF st.found THEN Append(out, st.item) ELSE out
           /\ it' = [it EXCEPT !.c = CurAfter(it.c, st.used), !.seen = st.seen,
                               !.done = ~st.found, !.raised = st.raised]
           /\ pos' = IF it.c.live THEN pos + st.used ELSE pos
    /\ UNCHANGED <<x, call, result>>

CallUniqueJustseen ==
    \E key \in Keys :
        Do("unique_justseen", 0, <<>>, key, unique_justseen(x.kind, View, key))

\* One next() on the map object unique_justseen returned.
PullUniqueJustseen ==
    /\ result.kind = "unique_justseen"
    /\ ~it.done
    /\ LET st == JustseenNext(call.pred, Rest(it.c), it.started, it.tgtkey, 0)
       IN  /\ out' = IF st.found THEN Append(out, st.item) ELSE out
           /\ it' = [it EXCEPT !.c = CurAfter(it.c, st.used), !.tgtkey = st.tgtkey,
                               !.started = it.started \/ st.found, !.done = ~st.found]
           /\ pos' = IF it.c.live THEN pos + st.used ELSE pos
    /\ UNCHANGED <<x, call, result>>

CallNcycles ==
    \E n \in Ns : Do("ncycles", n, <<>>, "None", ncycles(x.kind, View, n))

\* One next() on the generator ncycles returned; the first one runs the body
\* from its start.
PullNcycles ==
    /\ result.kind = "ncycles"
    /\ ~it.done
    /\ LET init == NcStart(x.kind, View, call.n)
           c0 == IF it.started THEN it.c ELSE init.c
           full == IF it.started THEN it.full ELSE init.full
           used0 == IF it.started \/ ~x.kind.onePass THEN 0 ELSE init.used
           st == NcNext(it.k, IF c0.live THEN View ELSE c0.buf, full, call.n)
       IN  /\ out' = IF st.found THEN Append(out, st.item) ELSE out
           /\ it' = [c |-> IF c0.live THEN c0 ELSE [c0 EXCEPT !.buf = st.buf],
                     full |-> full, k |-> st.k, started |-> TRUE, done |-> ~st.found]
           /\ pos' = pos + used0 + (IF c0.live /\ st.found THEN 1 ELSE 0)
    /\ UNCHANGED <<x, call, result>>

CallLength == Do("length", 0, <<>>, "None", length(x.kind, View))

CallPrepend ==
    \E v \in {NoneV, IntV(1)} : Do("prepend", 0, <<v>>, "None", prepend(v, x.kind, View))

CallAppend ==
    \E v \in {NoneV, IntV(1)} : Do("append", 0, <<v>>, "None", append(x.kind, View, v))

\* One next() on the generator prepend or append returned.
PullWrapped(name, st) ==
    /\ result.kind = name
    /\ ~it.done
    /\ out' = IF st.found THEN Append(out, st.item) ELSE out
    /\ it' = [it EXCEPT !.c = CurAfter(it.c, st.used), !.stage = st.stage,
                        !.done = ~st.found]
    /\ pos' = IF it.c.live THEN pos + st.used ELSE pos
    /\ UNCHANGED <<x, call, result>>

PullPrepend ==
    /\ result.kind = "prepend"
    /\ PullWrapped("prepend", PrependNext(it.stage, call.args[1], Rest(it.c)))

PullAppend ==
    /\ result.kind = "append"
    /\ PullWrapped("append", AppendNext(it.stage, call.args[1], Rest(it.c)))

\* The caller drops what the call gave it (a value, an error, an iterator
\* pulled or not); what the call consumed from an iterator x stays consumed.
Abandon ==
    /\ call.op # NoCall.op
    /\ call' = NoCall
    /\ result' = NoResult
    /\ it' = NoIter
    /\ out' = <<>>
    /\ UNCHANGED <<x, pos>>

Next ==
    \/ CallFirst
    \/ CallLast
    \/ CallNth
    \/ CallReversediter
    \/ CallHead
    \/ CallTail
    \/ CallFirstTrue
    \/ CallFirstFalse
    \/ CallLastTrue
    \/ CallLastFalse
    \/ CallQuantify
    \/ CallPartition
    \/ Pull
    \/ PullTrue
    \/ PullFalse
    \/ CallPairwise
    \/ PullPairwise
    \/ CallUniqueEverseen
    \/ PullUniqueEverseen
    \/ CallUniqueJustseen
    \/ PullUniqueJustseen
    \/ CallNcycles
    \/ PullNcycles
    \/ CallLength
    \/ CallPrepend
    \/ PullPrepend
    \/ CallAppend
    \/ PullAppend
    \/ Abandon

Spec == Init /\ [][Next]_vars

----------------------------------------------------------------------------
\* roundrobin

\* The j-th item of the i-th iterable handed to roundrobin: the items of all
\* the iterables are distinct.
Item(i, j) == IntV(10 * i + j)

ArgOfLen(i, l) == [j \in 1 .. l |-> Item(i, j)]

RECURSIVE RRArgsUpTo(_)
RRArgsUpTo(k) ==
    IF k = 0 THEN {<<>>}
    ELSE LET fewer == RRArgsUpTo(k - 1)
         IN  fewer \cup {Append(a, ArgOfLen(k, l)) :
                            a \in {b \in fewer : Len(b) = k - 1}, l \in 0 .. MaxArgLen}

roundrobin_unchecked(args) ==
    [res |-> Lazy("roundrobin"), used |-> 0,
     it |-> [iters |-> args, i |-> 1, remaining |-> <<>>, done |-> FALSE]]

roundrobin(args) == roundrobin_unchecked(args)

\* remaining.append(item), were it left out
RRKeep_Dropped(remaining, i) == remaining

\* remaining.append(item)
RRKeep(remaining, i) == Append(remaining, i)

\* remaining.popleft(), were it pop()
RRPop_Right(remaining) ==
    [who |-> remaining[Len(remaining)], rest |-> SubSeq(remaining, 1, Len(remaining) - 1)]

\* remaining.popleft()
RRPop(remaining) == [who |-> Head(remaining), rest |-> Tail(remaining)]

\* The generator from where it stands to its next yield.  With one argument
\* it yields from iter(args[0]).  With more, the for loop takes one item of
\* each argument in turn and keeps the iterators that gave one; the while
\* loop pops the oldest kept iterator, yields its next item and keeps it
\* again, or drops it at StopIteration.
RECURSIVE RRNext(_)
RRNext(st) ==
    LET n == Len(st.iters)
    IN  IF n = 0 THEN [found |-> FALSE, item |-> NoneV, st |-> st]
        ELSE IF n = 1
        THEN IF st.iters[1] = <<>> THEN [found |-> FALSE, item |-> NoneV, st |-> st]
             ELSE [found |-> TRUE, item |-> Head(st.iters[1]),
                   st |-> [st EXCEPT !.iters[1] = Tail(st.iters[1])]]
        ELSE IF st.i <= n
        THEN IF st.iters[st.i] = <<>> THEN RRNext([st EXCEPT !.i = st.i + 1])
             ELSE [found |-> TRUE, item |-> Head(st.iters[st.i]),
                   st |-> [st EXCEPT !.iters[st.i] = Tail(st.iters[st.i]),
                                     !.remaining = RRKeep(st.remaining, st.i),
                                     !.i = st.i + 1]]
        ELSE IF st.remaining = <<>> THEN [found |-> FALSE, item |-> NoneV, st |-> st]
        ELSE LET p == RRPop(st.remaining)
             IN  IF st.iters[p.who] = <<>> THEN RRNext([st EXCEPT !.remaining = p.rest])
                 ELSE [found |-> TRUE, item |-> Head(st.iters[p.who]),
                       st |-> [st EXCEPT !.iters[p.who] = Tail(st.iters[p.who]),
                                         !.remaining = RRKeep(p.rest, p.who)]]

----------------------------------------------------------------------------
\* repeatfunc

\* The function handed to repeatfunc keeps a counter k: called with no
\* argument it returns k and adds 1, called with a it returns k and adds a.
FnArgs == {<<>>, <<IntV(1)>>, <<IntV(2)>>}

Invoke(k, args) ==
    [ret |-> IntV(k), k |-> k + (IF args = <<>> THEN 1 ELSE args[1].v)]

\* n handed to repeatfunc: None or an integer
RepeatNs == {NoneV} \cup {IntV(n) : n \in Ns}

repeatfunc_unchecked(n, args) ==
    [res |-> Lazy("repeatfunc"), used |-> 0,
     it |-> [i |-> 0, k |-> 0, calls |-> 0, pulls |-> 0, done |-> FALSE]]

repeatfunc(n, args) ==
    IF n # NoneV /\ ~_check_quantity(n.v) THEN Ret(Raise("TypeError"), 0)
    ELSE repeatfunc_unchecked(n, args)

\* the loop, were it range(n + 1)
RepeatMore_OneMore(n, i) == n = NoneV \/ i <= n.v

\* while True when n is None, else for k in range(n): is there another round
RepeatMore(n, i) == n = NoneV \/ i < n.v

----------------------------------------------------------------------------
\* The recipes that take no single iterable: roundrobin(*args) and
\* repeatfunc(f, n, *args).

InitArgs ==
    /\ x = [items |-> <<>>,
            kind |-> [sized |-> TRUE, indexable |-> TRUE, reversible |-> TRUE,
                      onePass |-> FALSE]]
    /\ pos = 0
    /\ call = NoCall
    /\ result = NoResult
    /\ it = NoIter
    /\ out = <<>>

DoArgs(op, given, n, args, r) ==
    /\ call' = [op |-> op, S |-> given, n |-> n, args |-> args, pred |-> "None"]
    /\ result' = r.res
    /\ it' = r.it
    /\ out' = <<>>
    /\ UNCHANGED <<x, pos>>

CallRoundrobin ==
    /\ call.op = NoCall.op
    /\ \E args \in RRArgsUpTo(MaxArgs) :
           DoArgs("roundrobin", args, 0, <<>>, roundrobin(args))

\* One next() on the generator roundrobin returned.
PullRoundrobin ==
    /\ result.kind = "roundrobin"
    /\ ~it.done
    /\ LET nx == RRNext(it)
       IN  /\ out' = IF nx.found THEN Append(out, nx.item) ELSE out
           /\ it' = [nx.st EXCEPT !.done = ~nx.found]
    /\ UNCHANGED <<x, pos, call, result>>

CallRepeatfunc ==
    /\ call.op = NoCall.op
    /\ \E n \in RepeatNs, args \in FnArgs :
           DoArgs("repeatfunc", <<>>, n, args, repeatfunc(n, args))

\* One next() on the generator repeatfunc returned: one more f(*args), or
\* StopIteration after n of them.
PullRepeatfunc ==
    /\ result.kind = "repeatfunc"
    /\ ~it.done
    /\ it.pulls < MaxPulls
    /\ IF RepeatMore(call.n, it.i)
       THEN LET r == Invoke(it.k, call.args)
            IN  /\ out' = Append(out, r.ret)
                /\ it' = [it EXCEPT !.i = it.i + 1, !.k = r.k, !.calls = it.calls + 1,
                                    !.pulls = it.pulls + 1]
       ELSE /\ out' = out
            /\ it' = [it EXCEPT !.pulls = it.pulls + 1, !.done = TRUE]
    /\ UNCHANGED <<x, pos, call, result>>

NextArgs ==
    \/ CallRoundrobin
    \/ PullRoundrobin
    \/ CallRepeatfunc
    \/ PullRepeatfunc
    \/ Abandon

SpecArgs == InitArgs /\ [][NextArgs]_vars

----------------------------------------------------------------------------
\* The forward walk of tail(x, n), n >= 1, over an x that is not Reversible,
\* one item at a time: head.unchecked(x, -n) makes d = deque(maxlen=n) and
\* d.extend(x) appends the items of x to it in turn.

InitWindow ==
    /\ x \in {[items |-> s, kind |-> k] :
                 s \in SeqsUpTo(MaxLen), k \in {kk \in Kinds : ~kk.reversible}}
    /\ pos = 0
    /\ call = NoCall
    /\ result = NoResult
    /\ it = NoIter
    /\ out = <<>>

\* tail(x, n) up to d = deque(maxlen=n)
WindowStart ==
    /\ call.op = NoCall.op
    /\ \E n \in 1 .. MaxN :
           call' = [op |-> "tail", S |-> View, n |-> n, args |-> <<>>, pred |-> "None"]
    /\ it' = [d |-> <<>>, k |-> 0, done |-> FALSE]
    /\ UNCHANGED <<x, pos, result, out>>

\* d.extend(x) takes the next item of x and appends it
WindowStep ==
    /\ call.op = "tail"
    /\ result = NoResult
    /\ it.k < Len(call.S)
    /\ it' = [it EXCEPT !.d = DequeAppend(it.d, call.S[it.k + 1], call.n), !.k = it.k + 1]
    /\ pos' = IF x.kind.onePass THEN pos + 1 ELSE pos
    /\ UNCHANGED <<x, call, result, out>>

\* x is exhausted: return iter(d)
WindowReturn ==
    /\ call.op = "tail"
    /\ result = NoResult
    /\ it.k = Len(call.S)
    /\ result' = Iter
    /\ it' = IterBuf(it.d)
    /\ UNCHANGED <<x, pos, call, out>>

NextWindow ==
    \/ WindowStart
    \/ WindowStep
    \/ WindowReturn
    \/ Pull
    \/ Abandon

SpecWindow == InitWindow /\ [][NextWindow]_vars

----------------------------------------------------------------------------
\* The traversal of nth(x, n) over an x that has a length and is no
\* Sequence, one item at a time: next(islice(x, n, None)) reads and drops n
\* items and returns the one after them.

\* isinstance(x, Reversible) and n >= l//2, were the test n > l//2
NthFromEnd_Strict(kind, l, m) == kind.reversible /\ m > l \div 2

\* isinstance(x, Reversible) and n >= l//2
NthFromEnd(kind, l, m) == kind.reversible /\ m >= l \div 2

InitNth ==
    /\ x \in {[items |-> s, kind |-> k] :
                 s \in SeqsUpTo(MaxLen), k \in {kk \in Kinds : kk.sized /\ ~kk.indexable}}
    /\ pos = 0
    /\ call = NoCall
    /\ result = NoResult
    /\ it = NoIter
    /\ out = <<>>

\* nth(x, n, *args) up to islice(x, n, None): an index out of range has
\* raised IndexError by then
NthStart ==
    /\ call.op = NoCall.op
    /\ \E n \in Ns, args \in {<<>>, <<IntV(0)>>} :
           LET l == Len(View)
               m == IF n < 0 THEN n + l ELSE n
               rev == NthFromEnd(x.kind, l, m)
           IN  /\ call' = [op |-> "nth", S |-> View, n |-> n, args |-> args,
                           pred |-> "None"]
               /\ IF m < 0 \/ m >= l
                  THEN /\ result' = OnEmpty(args, "IndexError")
                       /\ it' = NoIter
                  ELSE /\ result' = NoResult
                       /\ it' = [rev |-> rev, skip |-> IF rev THEN l - m - 1 ELSE m,
                                 k |-> 0]
    /\ UNCHANGED <<x, pos, out>>

\* islice reads an item and drops it
NthSkip ==
    /\ call.op = "nth"
    /\ result = NoResult
    /\ it.k < it.skip
    /\ it' = [it EXCEPT !.k = it.k + 1]
    /\ UNCHANGED <<x, pos, call, result, out>>

\* islice reads the item after the dropped ones and next() returns it
NthReturn ==
    /\ call.op = "nth"
    /\ result = NoResult
    /\ it.k = it.skip
    /\ result' = Value(IF it.rev THEN Reversed(call.S)[it.k + 1] ELSE call.S[it.k + 1])
    /\ UNCHANGED <<x, pos, call, it, out>>

NextNth ==
    \/ NthStart
    \/ NthSkip
    \/ NthReturn
    \/ Abandon

SpecNth == InitNth /\ [][NextNth]_vars

----------------------------------------------------------------------------
\* unique_everseen and unique_justseen with keys that may have no hash: the
\* key function lambda v: [v] if v == 2 else v.

\* x is a sequence, an iterable that is nothing more, or an iterator
InitFew ==
    /\ x \in {[items |-> s, kind |-> k] :
                 s \in SeqsUpTo(MaxLen), k \in {kk \in Kinds : kk.indexable = kk.sized}}
    /\ pos = 0
    /\ call = NoCall
    /\ result = NoResult
    /\ it = NoIter
    /\ out = <<>>

CallEverseenBoxed ==
    Do("unique_everseen", 0, <<>>, "box2", unique_everseen(x.kind, View, "box2"))

CallJustseenBoxed ==
    Do("unique_justseen", 0, <<>>, "box2", unique_justseen(x.kind, View, "box2"))

NextKeys ==
    \/ CallUniqueEverseen
    \/ CallEverseenBoxed
    \/ PullUniqueEverseen
    \/ CallUniqueJustseen
    \/ CallJustseenBoxed
    \/ PullUniqueJustseen
    \/ Abandon

SpecKeys == InitFew /\ [][NextKeys]_vars

----------------------------------------------------------------------------
\* The argument checkers.  A public recipe is checker(unchecked)(check): the
\* wrapper runs check(*args, **kwargs), which raises TypeError or returns,
\* and only then unchecked(*args, **kwargs).  Here every argument may have
\* the wrong shape: a value that is no iterable in the place of x, a value
\* that is no int in the place of n, a value that is not callable in the
\* place of pred, key or func.

\* values that are not iterable, and what may be passed as x
NonIterables == {IntV(5), NoneV}
XShapes == {x} \cup NonIterables

\* what may be passed as n
NShapes == {IntV(-1), IntV(0), IntV(2), BoolV(TRUE), NoneV, [t |-> "str", v |-> 1]}

\* what is callable, and what may be passed as pred or key ("five": the
\* int 5)
Callables == {"gt1", "not_", "none", "bool", "box2", "f"}
PredShapes == {"None", "gt1", "five"}

\* isinstance(x, Iterable)
_check_iterable(v) == "items" \in DOMAIN v

\* callable(x), were everything callable
_check_callable_Any(f) == TRUE

\* callable(x)
_check_callable(f) == f \in Callables

\* None or a callable
_check_predicate(f) == f = "None" \/ _check_callable(f)

\* isinstance(x, int); bool is a subclass of int
_check_integer(v) == v.t \in {"int", "bool"}

\* class checker: the wrapper's check, then the recipe
checker(ok, r) == IF ok THEN r ELSE Ret(Raise("TypeError"), 0)

\* A call: what was passed as x (as *args for roundrobin), as n, as the
\* defaults and as pred, key or func.
DoChecked(op, xs, n, args, pred, r) ==
    /\ call' = [op |-> op, S |-> View, n |-> n, args |-> args, pred |-> pred, x |-> xs]
    /\ result' = r.res
    /\ pos' = IF x.kind.onePass THEN pos + r.used ELSE pos
    /\ it' = r.it
    /\ out' = <<>>
    /\ UNCHANGED x

CheckedFirst ==
    /\ call.op = NoCall.op
    /\ \E xs \in XShapes, args \in ArgsSet :
           DoChecked("first", xs, NoneV, args, "None",
                     checker(_check_iterable(xs), first(View, args)))

CheckedLast ==
    /\ call.op = NoCall.op
    /\ \E xs \in XShapes, args \in ArgsSet :
           DoChecked("last", xs, NoneV, args, "None",
                     checker(_check_iterable(xs), last(x.kind, View, args)))

CheckedFirstTrue ==
    /\ call.op = NoCall.op
    /\ \E xs \in XShapes, args \in ArgsSet, pred \in PredShapes :
           DoChecked("first_true", xs, NoneV, args, pred,
                     checker(_check_iterable(xs) /\ _check_predicate(pred),
                             first_true(View, args, pred)))

CheckedFirstFalse ==
    /\ call.op = NoCall.op
    /\ \E xs \in XShapes, args \in ArgsSet, pred \in PredShapes :
           DoChecked("first_false", xs, NoneV, args, pred,
                     checker(_check_iterable(xs) /\ _check_predicate(pred),
                             first_false(View, args, pred)))

CheckedLastTrue ==
    /\ call.op = NoCall.op
    /\ \E xs \in XShapes, args \in ArgsSet, pred \in PredShapes :
           DoChecked("last_true", xs, NoneV, args, pred,
                     checker(_check_iterable(xs) /\ _check_predicate(pred),
                             last_true(x.kind, View, args, pred)))

CheckedLastFalse ==
    /\ call.op = NoCall.op
    /\ \E xs \in XShapes, args \in ArgsSet, pred \in PredShapes :
           DoChecked("last_false", xs, NoneV, args, pred,
                     checker(_check_iterable(xs) /\ _check_predicate(pred),
                             last_false(x.kind, View, args, pred)))

CheckedNth ==
    /\ call.op = NoCall.op
    /\ \E xs \in XShapes, n \in NShapes, args \in ArgsSet :
           DoChecked("nth", xs, n, args, "None",
                     checker(_check_iterable(xs) /\ _check_integer(n),
                             nth(x.kind, View, n.v, args)))

CheckedReversediter ==
    /\ call.op = NoCall.op
    /\ \E xs \in XShapes :
           DoChecked("reversediter", xs, NoneV, <<>>, "None",
                     checker(_check_iterable(xs), reversediter(x.kind, View)))

CheckedHead ==
    /\ call.op = NoCall.op
    /\ \E xs \in XShapes, n \in NShapes :
           DoChecked("head", xs, n, <<>>, "None",
                     checker(_check_iterable(xs) /\ _check_integer(n),
                             head(x.kind, View, n.v)))

CheckedTail ==
    /\ call.op = NoCall.op
    /\ \E xs \in XShapes, n \in NShapes :
           DoChecked("tail", xs, n, <<>>, "None",
                     checker(_check_iterable(xs) /\ _check_integer(n),
                             tail(x.kind, View, n.v)))

CheckedQuantify ==
    /\ call.op = NoCall.op
    /\ \E xs \in XShapes, pred \in PredShapes :
           DoChecked("quantify", xs, NoneV, <<>>, pred,
                     checker(_check_iterable(xs) /\ _check_predicate(pred),
                             quantify(View, pred)))

CheckedNcycles ==
    /\ call.op = NoCall.op
    /\ \E xs \in XShapes, n \in NShapes :
           DoChecked("ncycles", xs, n, <<>>, "None",
                     checker(_check_iterable(xs) /\ _check_integer(n),
                             ncycles(x.kind, View, n.v)))

CheckedRepeatfunc ==
    /\ call.op = NoCall.op
    /\ \E func \in {"f", "None", "five"}, n \in NShapes, args \in FnArgs :
           DoChecked("repeatfunc", <<>>, n, args, func,
                     checker(_check_callable(func) /\ (n = NoneV \/ _check_integer(n)),
                             repeatfunc(n, args)))

CheckedUniqueEverseen ==
    /\ call.op = NoCall.op
    /\ \E xs \in XShapes, key \in PredShapes :
           DoChecked("unique_everseen", xs, NoneV, <<>>, key,
                     checker(_check_iterable(xs) /\ _check_predicate(key),
                             unique_everseen(x.kind, View, key)))

CheckedUniqueJustseen ==
    /\ call.op = NoCall.op
    /\ \E xs \in XShapes, key \in PredShapes :
           DoChecked("unique_justseen", xs, NoneV, <<>>, key,
                     checker(_check_iterable(xs) /\ _check_predicate(key),
                             unique_justseen(x.kind, View, key)))

CheckedRoundrobin ==
    /\ call.op = NoCall.op
    /\ \E xs \in {<<>>, <<x>>, <<x, IntV(5)>>, <<NoneV, x>>} :
           DoChecked("roundrobin", xs, NoneV, <<>>, "None",
                     checker(\A i \in 1 .. Len(xs) : _check_iterable(xs[i]),
                             roundrobin([i \in 1 .. Len(xs) |-> View])))

CheckedLength ==
    /\ call.op = NoCall.op
    /\ \E xs \in XShapes :
           DoChecked("length", xs, NoneV, <<>>, "None",
                     checker(_check_iterable(xs), length(x.kind, View)))

CheckedPrepend ==
    /\ call.op = NoCall.op
    /\ \E xs \in XShapes, v \in {NoneV, IntV(1)} :
           DoChecked("prepend", xs, NoneV, <<v>>, "None",
                     checker(_check_iterable(xs), prepend(v, x.kind, View)))

CheckedAppend ==
    /\ call.op = NoCall.op
    /\ \E xs \in XShapes, v \in {NoneV, IntV(1)} :
           DoChecked("append", xs, NoneV, <<v>>, "None",
                     checker(_check_iterable(xs), append(x.kind, View, v)))

CheckedPartition ==
    /\ call.op = NoCall.op
    /\ \E xs \in XShapes, pred \in PredShapes :
           DoChecked("partition", xs, NoneV, <<>>, pred,
                     checker(_check_iterable(xs) /\ _check_predicate(pred),
                             partition(x.kind, View, pred)))

CheckedPairwise ==
    /\ call.op = NoCall.op
    /\ \E xs \in XShapes :
           DoChecked("pairwise", xs, NoneV, <<>>, "None",
                     checker(_check_iterable(xs), pairwise(x.kind, View)))

NextChecked ==
    \/ CheckedFirst
    \/ CheckedLast
    \/ CheckedFirstTrue
    \/ CheckedFirstFalse
    \/ CheckedLastTrue
    \/ CheckedLastFalse
    \/ CheckedNth
    \/ CheckedReversediter
    \/ CheckedHead
    \/ CheckedTail
    \/ CheckedQuantify
    \/ CheckedNcycles
    \/ CheckedRepeatfunc
    \/ CheckedUniqueEverseen
    \/ CheckedUniqueJustseen
    \/ CheckedRoundrobin
    \/ CheckedLength
    \/ CheckedPrepend
    \/ CheckedAppend
    \/ CheckedPartition
    \/ CheckedPairwise
    \/ Abandon

SpecChecked == InitFew /\ [][NextChecked]_vars

----------------------------------------------------------------------------
\* Properties of the recipes.  S is the iterable as the call found it, L its
\* length; positions in the text count from 0, TLA+ sequences from 1.

S == call.S
L == Len(call.S)
WellFormed == Len(call.args) <= 1
NoDefault == call.args = <<>>
HasDefault == Len(call.args) = 1
Min(a, b) == IF a <= b THEN a ELSE b
FirstK(s, k) == SubSeq(s, 1, Min(k, Len(s)))
LastK(s, k) == SubSeq(s, Len(s) - Min(k, Len(s)) + 1, Len(s))
IsPrefix(p, s) == Len(p) <= Len(s) /\ p = SubSeq(s, 1, Len(p))
Exhausted == result.kind = "iter" /\ it.done

\* What the returned iterator yields in all, given the items an iterator x
\* still holds.
RECURSIVE Drain(_, _)
Drain(i, rest) ==
    IF i.left = 0 THEN <<>>
    ELSE LET left == IF i.left > 0 THEN i.left - 1 ELSE i.left
         IN  IF i.live
             THEN IF rest = <<>> THEN <<>>
                  ELSE <<Head(rest)>> \o Drain([i EXCEPT !.left = left], Tail(rest))
             ELSE IF i.buf = <<>> THEN <<>>
             ELSE IF i.rev
                  THEN <<i.buf[Len(i.buf)]>>
                       \o Drain([i EXCEPT !.left = left,
                                          !.buf = SubSeq(i.buf, 1, Len(i.buf) - 1)], rest)
                  ELSE <<Head(i.buf)>>
                       \o Drain([i EXCEPT !.left = left, !.buf = Tail(i.buf)], rest)

\* C1: first(S, [default]) returns the item at position 0 of a non-empty S
\* (never the default); on an empty S it raises ValueError without a default
\* and returns exactly the default with one, falsy defaults included.
C1_First ==
    (call.op = "first" /\ WellFormed) =>
        /\ L >= 1 => result = Value(S[1])
        /\ (L = 0 /\ NoDefault) => result = Raise("ValueError")
        /\ (L = 0 /\ HasDefault) => result = Value(call.args[1])

C1_Witness ==
    /\ call.op = "first" /\ L = 0 /\ call.args = <<BoolV(FALSE)>>
    /\ result = Value(BoolV(FALSE))

\* C2: last(S, [default]) returns the item at position L-1 of a non-empty S,
\* by the reverse traversal of a Reversible and by the forward walk
\* otherwise; on an empty S it raises ValueError without a default and
\* returns exactly the default with one, on both paths.
C2_Last ==
    (call.op = "last" /\ WellFormed) =>
        /\ L >= 1 => result = Value(S[L])
        /\ (L = 0 /\ NoDefault) => result = Raise("ValueError")
        /\ (L = 0 /\ HasDefault) => result = Value(call.args[1])

C2_Witness ==
    /\ call.op = "last" /\ ~x.kind.reversible /\ L = 3 /\ S[1] # S[3] /\ S[2] # S[3]
    /\ result = Value(S[3])

\* C3: nth(S, k) with 0 <= k < L returns the item at position k, whatever S
\* implements and with or without a default.
C3_NthInRange ==
    (call.op = "nth" /\ WellFormed /\ 0 <= call.n /\ call.n < L) =>
        result = Value(S[call.n + 1])

C3_Witness ==
    /\ call.op = "nth" /\ x.kind.sized /\ ~x.kind.indexable /\ x.kind.reversible
    /\ L = 3 /\ call.n = 1 /\ S[1] # S[2] /\ S[3] # S[2] /\ HasDefault
    /\ result = Value(S[2])

\* C4: nth(S, -k) with 1 <= k <= L returns the item at position L-k, what
\* nth(S, L-k) returns, when S has a length and when it has none.
C4_NthNegative ==
    (call.op = "nth" /\ WellFormed /\ call.n < 0 /\ 0 - call.n <= L) =>
        /\ result = Value(S[L + call.n + 1])
        /\ result = nth(x.kind, S, L + call.n, call.args).res

C4_Witness ==
    /\ call.op = "nth" /\ x.kind.onePass /\ L = 3 /\ call.n = -2
    /\ S[1] # S[2] /\ S[3] # S[2]
    /\ result = Value(S[2])

C6_Reversediter ==
    call.op = "reversediter" =>
        /\ result.kind = "iter"
        /\ Len(out) <= L
        /\ \A i \in 1 .. Len(out) : out[i] = S[L + 1 - i]
        /\ it.done => Len(out) = L

C6_Witness ==
    /\ call.op = "reversediter" /\ ~x.kind.reversible /\ Exhausted
    /\ L = 3 /\ S[1] # S[3] /\ out = <<S[3], S[2], S[1]>>

C9_Duality ==
    /\ (call.op = "head" /\ call.n <= 0 /\ Exhausted) =>
           out = Drain(tail(x.kind, S, 0 - call.n).it, S)
    /\ (call.op = "tail" /\ call.n <= 0 /\ Exhausted) =>
           out = Drain(head(x.kind, S, 0 - call.n).it, S)

C9_Witness ==
    /\ call.op = "tail" /\ call.n = -2 /\ L = 3 /\ Exhausted
    /\ S[1] # S[2] /\ out = <<S[1], S[2]>>

\* C10: first_true returns the item at the smallest position whose predicate
\* result is truthy, first_false the one at the smallest position whose
\* predicate result is falsy (first_false with a predicate is first_true with
\* its negation); without a predicate the item's own truthiness is tested;
\* when no item qualifies ValueError is raised without a default and exactly
\* the default is returned with one.
Qualifies(item) ==
    IF call.pred = "None" THEN Truthy(item) ELSE Truthy(ApplyPred(call.pred, item))
Hits(want) == {i \in 1 .. L : Qualifies(S[i]) = want}
Smallest(set) == CHOOSE i \in set : \A j \in set : i <= j

FirstWhere(want) ==
    /\ Hits(want) # {} => result = Value(S[Smallest(Hits(want))])
    /\ (Hits(want) = {} /\ NoDefault) => result = Raise("ValueError")
    /\ (Hits(want) = {} /\ HasDefault) => result = Value(call.args[1])

C10_FirstTrueFalse ==
    /\ (call.op = "first_true" /\ WellFormed) => FirstWhere(TRUE)
    /\ (call.op = "first_false" /\ WellFormed) => FirstWhere(FALSE)
    /\ (call.op = "first_false" /\ WellFormed /\ call.pred = "None") =>
           result = first_true(S, call.args, "not_").res
    /\ (call.op = "first_false" /\ WellFormed /\ call.pred = "not_") =>
           result = first_true(S, call.args, "None").res

C10_Witness ==
    /\ call.op = "first_false" /\ call.pred = "gt1" /\ L = 3
    /\ S[1] = IntV(2) /\ S[2] = IntV(1) /\ result = Value(IntV(1))

\* C11: last_true is first_true over reversediter(S): it returns the item at
\* the greatest position whose predicate result is truthy, last_false the one
\* at the greatest position whose predicate result is falsy (last_false with
\* a predicate is last_true with its negation); when no item qualifies
\* ValueError is raised without a default and exactly the default is returned
\* with one, for a Reversible S and a forward-only one alike.
Greatest(set) == CHOOSE i \in set : \A j \in set : i >= j

LastWhere(want) ==
    /\ Hits(want) # {} => result = Value(S[Greatest(Hits(want))])
    /\ (Hits(want) = {} /\ NoDefault) => result = Raise("ValueError")
    /\ (Hits(want) = {} /\ HasDefault) => result = Value(call.args[1])

C11_LastTrueFalse ==
    /\ (call.op = "last_true" /\ WellFormed) =>
           /\ LastWhere(TRUE)
           /\ result = first_true(Reversed(S), call.args, call.pred).res
    /\ (call.op = "last_false" /\ WellFormed) =>
           /\ LastWhere(FALSE)
           /\ result = first_false(Reversed(S), call.args, call.pred).res
    /\ (call.op = "last_false" /\ WellFormed /\ call.pred = "None") =>
           result = last_true(x.kind, S, call.args, "not_").res
    /\ (call.op = "last_false" /\ WellFormed /\ call.pred = "not_") =>
           result = last_true(x.kind, S, call.args, "None").res

C11_Witness ==
    /\ call.op = "last_true" /\ call.pred = "None" /\ ~x.kind.reversible /\ L = 3
    /\ S[1] = IntV(1) /\ S[2] = IntV(2) /\ S[3] = IntV(0) /\ result = Value(IntV(2))

\* C12: quantify(S, pred) returns the number of items of S for which pred is
\* truthy; without a predicate it counts the truthy items, as quantify(S,
\* bool) does; on an empty S it returns 0 and raises nothing.
C12_Quantify ==
    call.op = "quantify" =>
        /\ result = Value(IntV(Cardinality(Hits(TRUE))))
        /\ call.pred = "None" =>
               /\ result = Value(IntV(Cardinality({i \in 1 .. L : Truthy(S[i])})))
               /\ result = quantify(S, "bool").res
        /\ L = 0 => result = Value(IntV(0))

C12_Witness ==
    /\ call.op = "quantify" /\ call.pred = "gt1" /\ L = 3
    /\ S[1] = IntV(2) /\ S[2] = IntV(0) /\ S[3] = IntV(2) /\ result = Value(IntV(2))

\* C13: the two iterators partition(pred, S) returns can be driven
\* independently: for every S, a single-pass iterator included, and every
\* interleaving of pulls, the first yields exactly the items of S where pred
\* holds and the second exactly those where it does not, each in S's order,
\* none lost and none yielded by the wrong one.
Select(s, want) == SelectSeq(s, LAMBDA e : Qualifies(e) = want)
Yielded(want) ==
    LET sel == SelectSeq(out, LAMBDA o : o.h = want)
    IN  [i \in 1 .. Len(sel) |-> sel[i].item]

C13_Partition ==
    call.op = "partition" =>
        /\ IsPrefix(Yielded(TRUE), Select(S, TRUE))
        /\ IsPrefix(Yielded(FALSE), Select(S, FALSE))
        /\ it.tdone => Yielded(TRUE) = Select(S, TRUE)
        /\ it.fdone => Yielded(FALSE) = Select(S, FALSE)

\* C13, for the iterables the two iterators traverse separately (any x that
\* is not itself an iterator).
C13_PartitionRestartable ==
    (call.op = "partition" /\ ~x.kind.onePass) =>
        /\ IsPrefix(Yielded(TRUE), Select(S, TRUE))
        /\ IsPrefix(Yielded(FALSE), Select(S, FALSE))
        /\ it.tdone => Yielded(TRUE) = Select(S, TRUE)
        /\ it.fdone => Yielded(FALSE) = Select(S, FALSE)

\* C16: pairwise(S) yields exactly the L-1 pairs (item i, item i+1) in order
\* when L >= 2 and nothing, without error, when L is 0 or 1.
C16_Pairwise ==
    call.op = "pairwise" =>
        /\ result.kind = "pairwise"
        /\ \A i \in 1 .. Len(out) : i + 1 <= L /\ out[i] = <<S[i], S[i + 1]>>
        /\ it.done => Len(out) = (IF L >= 2 THEN L - 1 ELSE 0)

C16_Witness ==
    /\ call.op = "pairwise" /\ it.done /\ L = 3 /\ S[1] # S[2] /\ S[2] # S[3]
    /\ out = << <<S[1], S[2]>>, <<S[2], S[3]>> >>

\* C17: unique_everseen(S, [key]) yields an item exactly when its key has
\* not occurred at an earlier position: the first occurrences in original
\* order, with pairwise distinct keys, the keys of S and of the output being
\* the same set.
KeyAt(i) == IF call.pred = "None" THEN S[i] ELSE ApplyPred(call.pred, S[i])
FirstOccurrences == {i \in 1 .. L : \A j \in 1 .. (i - 1) : KeyAt(j) # KeyAt(i)}
RunStarts == {i \in 1 .. L : i = 1 \/ KeyAt(i - 1) # KeyAt(i)}
OutKey(i) == IF call.pred = "None" THEN out[i] ELSE ApplyPred(call.pred, out[i])

RECURSIVE PickPositions(_, _)
PickPositions(set, i) ==
    IF i > L THEN <<>>
    ELSE (IF i \in set THEN <<S[i]>> ELSE <<>>) \o PickPositions(set, i + 1)

C17_UniqueEverseen ==
    call.op = "unique_everseen" =>
        /\ result.kind = "unique_everseen"
        /\ IsPrefix(out, PickPositions(FirstOccurrences, 1))
        /\ \A i, j \in 1 .. Len(out) : i # j => OutKey(i) # OutKey(j)
        /\ it.done =>
               /\ out = PickPositions(FirstOccurrences, 1)
               /\ {OutKey(i) : i \in 1 .. Len(out)} = {KeyAt(i) : i \in 1 .. L}

C17_Witness ==
    /\ call.op = "unique_everseen" /\ call.pred = "None" /\ it.done
    /\ S = <<IntV(1), IntV(0), IntV(1)>> /\ out = <<IntV(1), IntV(0)>>

\* C18: unique_justseen(S, [key]) yields one item per maximal run of
\* consecutive items with the same key, the first of the run, in original
\* order: no two consecutive outputs have equal keys, and an empty S yields
\* nothing.
C18_UniqueJustseen ==
    call.op = "unique_justseen" =>
        /\ result.kind = "unique_justseen"
        /\ IsPrefix(out, PickPositions(RunStarts, 1))
        /\ \A i \in 1 .. (Len(out) - 1) : OutKey(i) # OutKey(i + 1)
        /\ it.done => out = PickPositions(RunStarts, 1)
        /\ L = 0 => out = <<>>

C18_Witness ==
    /\ call.op = "unique_justseen" /\ call.pred = "gt1" /\ it.done
    /\ S = <<IntV(0), IntV(1), IntV(2)>> /\ out = <<IntV(0), IntV(2)>>

\* C19: ncycles(S, n) with n >= 0 yields exactly n*L items, S's traversal n
\* times over in the same order (nothing for n = 0), also when S is an
\* iterator, which for n > 1 is traversed once and replayed from a tuple.
RECURSIVE Repeat(_, _)
Repeat(s, n) == IF n = 0 THEN <<>> ELSE s \o Repeat(s, n - 1)

C19_Ncycles ==
    (call.op = "ncycles" /\ call.n >= 0) =>
        /\ result.kind = "ncycles"
        /\ IsPrefix(out, Repeat(S, call.n))
        /\ it.done => (out = Repeat(S, call.n) /\ Len(out) = call.n * L)
        /\ x.kind.onePass => pos <= Len(x.items)

C19_Witness ==
    /\ call.op = "ncycles" /\ call.n = 2 /\ x.kind.onePass /\ it.done
    /\ L = 2 /\ S[1] # S[2] /\ out = <<S[1], S[2], S[1], S[2]>>

\* C14: roundrobin(S1..SN) yields round after round: round r holds the r-th
\* item of every argument longer than r, in argument order; no argument
\* yields nothing, one argument yields its items as they are, and the output
\* is as long as the arguments together.
RECURSIVE Row(_, _, _)
Row(args, r, i) ==
    IF i > Len(args) THEN <<>>
    ELSE (IF Len(args[i]) >= r THEN <<args[i][r]>> ELSE <<>>) \o Row(args, r, i + 1)

RECURSIVE Rounds(_, _)
Rounds(args, r) ==
    IF \A i \in 1 .. Len(args) : Len(args[i]) < r THEN <<>>
    ELSE Row(args, r, 1) \o Rounds(args, r + 1)

RECURSIVE SumLen(_, _)
SumLen(args, i) == IF i > Len(args) THEN 0 ELSE Len(args[i]) + SumLen(args, i + 1)

C14_Roundrobin ==
    call.op = "roundrobin" =>
        /\ result.kind = "roundrobin"
        /\ IsPrefix(out, Rounds(S, 1))
        /\ it.done =>
               /\ out = Rounds(S, 1)
               /\ Len(out) = SumLen(S, 1)
               /\ L = 0 => out = <<>>
               /\ L = 1 => out = S[1]

C14_Witness ==
    /\ call.op = "roundrobin" /\ it.done /\ L = 4
    /\ Len(S[1]) = 1 /\ Len(S[2]) = 2 /\ Len(S[3]) = 3 /\ Len(S[4]) = 4
    /\ out = <<Item(1, 1), Item(2, 1), Item(3, 1), Item(4, 1), Item(2, 2), Item(3, 2),
               Item(4, 2), Item(3, 3), Item(4, 3), Item(4, 4)>>

\* C15: at every prefix of roundrobin's output, any two arguments that both
\* still have items have yielded numbers of items that differ by at most
\* one, the later argument never being ahead of the earlier; and no argument
\* yields its next item before every other argument that still has one has
\* yielded its item of the round before.
From(item) == item.v \div 10
Cnt(i, p) == Cardinality({q \in 1 .. p : From(out[q]) = i})
Active(i, p) == Cnt(i, p) < Len(S[i])

C15_RoundrobinFair ==
    call.op = "roundrobin" =>
        /\ \A p \in 0 .. Len(out) : \A i, j \in 1 .. L :
               (i < j /\ Active(i, p) /\ Active(j, p)) =>
                   (Cnt(i, p) - Cnt(j, p)) \in {0, 1}
        /\ \A p \in 1 .. Len(out) : \A k \in 1 .. L :
               LET c == Cnt(From(out[p]), p)
               IN  Cnt(k, p) >= Min(c - 1, Len(S[k]))

C15_Witness ==
    /\ call.op = "roundrobin" /\ L = 3 /\ ~it.done
    /\ Len(S[1]) = 3 /\ Len(S[2]) = 1 /\ Len(S[3]) = 3
    /\ out = <<Item(1, 1), Item(2, 1), Item(3, 1), Item(1, 2)>>

\* C20: repeatfunc(f, n, args...) is lazy, one call of f per pull: f is not
\* called by the call itself; after k pulls it has been called min(k, n)
\* times with the arguments, the i-th item yielded is the result of the i-th
\* call, and exhaustion is signalled after n items (at once for n = 0); with
\* n None it is never signalled.
StepOf(args) == IF args = <<>> THEN 1 ELSE args[1].v

C20_Repeatfunc ==
    (call.op = "repeatfunc" /\ (call.n = NoneV \/ call.n.v >= 0)) =>
        /\ result.kind = "repeatfunc"
        /\ it.pulls = 0 => it.calls = 0
        /\ it.calls = (IF call.n = NoneV THEN it.pulls ELSE Min(it.pulls, call.n.v))
        /\ Len(out) = it.calls
        /\ \A i \in 1 .. Len(out) : out[i] = IntV((i - 1) * StepOf(call.args))
        /\ it.k = it.calls * StepOf(call.args)
        /\ call.n # NoneV => (it.done <=> it.pulls > call.n.v)
        /\ call.n = NoneV => ~it.done

C20_Witness ==
    /\ call.op = "repeatfunc" /\ call.n = IntV(2) /\ call.args = <<IntV(2)>>
    /\ it.done /\ it.pulls = 3 /\ it.calls = 2 /\ out = <<IntV(0), IntV(2)>>

C20_WitnessUnbounded ==
    /\ call.op = "repeatfunc" /\ call.n = NoneV /\ it.pulls = MaxPulls
    /\ Len(out) = MaxPulls

\* C22: first, last, nth, first_true, first_false, last_true and last_false
\* called with two or more defaults raise TypeError before any traversal, on
\* an empty and on a non-empty S alike; neither the first nor the last of
\* the values given is returned.
DefaultOps ==
    {"first", "last", "nth", "first_true", "first_false", "last_true", "last_false"}

\* nothing was taken from x since the call was entered
Untouched == View = S

C22_OneDefault ==
    (call.op \in DefaultOps /\ Len(call.args) >= 2) =>
        /\ result = Raise("TypeError")
        /\ Untouched
        /\ result # Value(call.args[1])
        /\ result # Value(call.args[Len(call.args)])

C22_Witness ==
    /\ call.op = "last_true" /\ Len(call.args) = 2 /\ x.kind.onePass /\ L = 3
    /\ pos = 0 /\ result = Raise("TypeError")

C22_WitnessEmpty ==
    /\ call.op = "nth" /\ Len(call.args) = 2 /\ L = 0 /\ result = Raise("TypeError")

\* C30: on an iterator, first takes exactly one item of a non-empty S;
\* first_true / first_false that find their item at position p take exactly
\* the items 0..p, and the items after p are what the iterator still yields;
\* when nothing qualifies the error or the default comes only once every item
\* was taken.
Found(want) ==
    LET p == Smallest(Hits(want))
    IN  /\ View = SubSeq(S, p + 1, L)
        /\ pos = (Len(x.items) - L) + p

NotFound(want) ==
    /\ View = <<>>
    /\ pos = Len(x.items)
    /\ result = (IF NoDefault THEN Raise("ValueError") ELSE Value(call.args[1]))

C30_SearchConsumes ==
    (x.kind.onePass /\ WellFormed) =>
        /\ (call.op = "first" /\ L >= 1) => (View = Tail(S) /\ pos = Len(x.items) - L + 1)
        /\ (call.op = "first_true" /\ Hits(TRUE) # {}) => Found(TRUE)
        /\ (call.op = "first_false" /\ Hits(FALSE) # {}) => Found(FALSE)
        /\ (call.op = "first_true" /\ Hits(TRUE) = {}) => NotFound(TRUE)
        /\ (call.op = "first_false" /\ Hits(FALSE) = {}) => NotFound(FALSE)

C30_Witness ==
    /\ call.op = "first_true" /\ call.pred = "gt1" /\ x.kind.onePass /\ NoDefault
    /\ S = <<IntV(0), IntV(2), IntV(1)>> /\ result = Value(IntV(2))
    /\ View = <<IntV(1)>>

C30_WitnessNotFound ==
    /\ call.op = "first_false" /\ call.pred = "None" /\ x.kind.onePass
    /\ S = <<IntV(1), IntV(2)>> /\ call.args = <<IntV(0)>> /\ result = Value(IntV(0))
    /\ View = <<>>

\* tuple(s)[start:]: a negative start counts from the end, and either is
\* clipped to the tuple.
SliceFrom(s, start) ==
    LET from == IF start < 0 THEN (IF Len(s) + start < 0 THEN 0 ELSE Len(s) + start)
                ELSE Min(start, Len(s))
    IN  SubSeq(s, from + 1, Len(s))

C27_WitnessZero ==
    /\ call.op = "tail" /\ call.n = 0 /\ Exhausted /\ L = 2 /\ out = <<>>

\* C29: while tail(x, n), n >= 1, walks a forward-only x, after k items the
\* window holds exactly the last min(k, n) of them in their order, never
\* more than n; an append to a full window drops its oldest item only; x is
\* traversed once; and the window the walk ends with is what tail yields.
Walking == call.op = "tail" /\ result = NoResult

C29_Window ==
    /\ Walking =>
           /\ it.d = LastK(FirstK(S, it.k), call.n)
           /\ Len(it.d) = Min(it.k, call.n)
           /\ Len(it.d) <= call.n
           /\ it.k <= L
           /\ x.kind.onePass => pos = (Len(x.items) - L) + it.k
    /\ (call.op = "tail" /\ result.kind = "iter") =>
           /\ IsPrefix(out, LastK(S, call.n))
           /\ out \o Drain(it, <<>>) = LastK(S, call.n)
           /\ out \o Drain(it, <<>>) = tail(x.kind, S, call.n).it.buf
           /\ x.kind.onePass => pos = Len(x.items)

\* C29, the step: the window after an append is the window before it, less
\* its oldest item if it was full, with the new item at its end.
C29_Evicts ==
    [][(Walking /\ Walking') =>
          it'.d = (IF Len(it.d) = call.n THEN Tail(it.d) ELSE it.d) \o <<S[it.k + 1]>>]_vars

C29_Witness ==
    /\ Walking /\ call.n = 2 /\ x.kind.onePass /\ it.k = 3
    /\ S = <<IntV(0), IntV(1), IntV(2)>> /\ it.d = <<IntV(1), IntV(2)>>

\* C28: nth over an S that has a length L, is Reversible and is no Sequence,
\* with the index normalised to m in 0..L-1: S is traversed from its end
\* exactly when m >= L div 2 and from its front otherwise; min(m, L-m-1)
\* items are skipped before the one returned; and the one returned is the
\* item at position m.
Normalized == IF call.n < 0 THEN call.n + L ELSE call.n

C28_NthBound ==
    (call.op = "nth" /\ x.kind.reversible /\ 0 <= Normalized /\ Normalized < L) =>
        /\ it.rev <=> Normalized >= L \div 2
        /\ it.k <= Min(Normalized, L - Normalized - 1)
        /\ result.kind = "value" =>
               /\ it.k = Min(Normalized, L - Normalized - 1)
               /\ result = Value(S[Normalized + 1])
               /\ result = nth(x.kind, S, call.n, call.args).res

C28_Witness ==
    /\ call.op = "nth" /\ x.kind.reversible /\ L = 3 /\ call.n = 1
    /\ S = <<IntV(0), IntV(1), IntV(2)>> /\ it.rev /\ it.k = 1
    /\ result = Value(IntV(1))

C28_WitnessFront ==
    /\ call.op = "nth" /\ x.kind.reversible /\ L = 3 /\ call.n = -3
    /\ ~it.rev /\ it.k = 0 /\ result = Value(S[1])

\* C25: length(S) is the number of items a forward traversal of S yields,
\* for every S: an S with a length gives it and nothing is taken from S;
\* any other S is counted in one forward pass, which leaves an iterator
\* exhausted.
C25_Length ==
    call.op = "length" =>
        /\ result = Value(IntV(L))
        /\ x.kind.sized => Untouched
        /\ x.kind.onePass => (View = <<>> /\ pos = Len(x.items))

C25_Witness ==
    /\ call.op = "length" /\ x.kind.onePass /\ L = 2 /\ Len(x.items) = 3
    /\ result = Value(IntV(2)) /\ View = <<>>

C25_WitnessSized ==
    /\ call.op = "length" /\ x.kind.sized /\ ~x.kind.indexable /\ L = 3
    /\ result = Value(IntV(3))

\* C26: prepend(v, S) yields v and then the items of S in order, L+1 items;
\* append(S, v) yields the items of S in order and then v; nothing is taken
\* from S by either call, and prepend yields v before it takes anything
\* from S.
Taken == L - Len(View)

C26_PrependAppend ==
    /\ call.op = "prepend" =>
           /\ result.kind = "prepend"
           /\ IsPrefix(out, <<call.args[1]>> \o S)
           /\ it.done => (out = <<call.args[1]>> \o S /\ Len(out) = L + 1)
           /\ Len(out) <= 1 => Untouched
           /\ x.kind.onePass => Taken = (IF out = <<>> THEN 0 ELSE Len(out) - 1)
    /\ call.op = "append" =>
           /\ result.kind = "append"
           /\ IsPrefix(out, S \o <<call.args[1]>>)
           /\ it.done => (out = S \o <<call.args[1]>> /\ Len(out) = L + 1)
           /\ out = <<>> => Untouched
           /\ x.kind.onePass => Taken = Min(Len(out), L)

C26_Witness ==
    /\ call.op = "prepend" /\ x.kind.onePass /\ out = <<IntV(1)>>
    /\ S = <<IntV(0), IntV(2)>> /\ View = S

C26_WitnessAppend ==
    /\ call.op = "append" /\ x.kind.onePass /\ it.done
    /\ S = <<IntV(0), IntV(2)>> /\ out = <<IntV(0), IntV(2), NoneV>>

\* C23: unique_everseen raises for a key without a hash only when it gets
\* there: with p the first position whose key has no hash, the call returns
\* its generator and raises nothing, the generator yields the first
\* occurrences among the positions before p, and the pull that reaches p
\* raises TypeError.
Unhashable == {i \in 1 .. L : KeyAt(i).t = "list"}
Before(p) == 1 .. (p - 1)

C24_JustseenRaises ==
    (call.op = "unique_justseen" /\ Unhashable # {}) =>
        /\ IsPrefix(out, PickPositions(RunStarts \cap Before(Smallest(Unhashable)), 1))
        /\ it.done => it.raised

\* C21: a call of any public recipe with an argument of the wrong shape (a
\* value that is no iterable for x, a value that is no int for an index or a
\* count, a value that is not callable for pred, key or func) raises
\* TypeError itself, and the body has not run: nothing was taken from x, no
\* iterator or generator exists (so no function of the caller's was or will
\* be called), also for the recipes that return lazily.  A call of the right
\* shape to a lazy recipe has taken nothing from x either, and repeatfunc
\* has not called its function.
TakesX == call.op # "repeatfunc"
TakesInt == call.op \in {"nth", "head", "tail", "ncycles"}
TakesPred ==
    call.op \in {"first_true", "first_false", "last_true", "last_false", "quantify",
                 "partition", "unique_everseen", "unique_justseen"}

BadX ==
    IF call.op = "roundrobin" THEN \E i \in 1 .. Len(call.x) : call.x[i] \in NonIterables
    ELSE TakesX /\ call.x \in NonIterables
BadInt ==
    \/ TakesInt /\ call.n.t \notin {"int", "bool"}
    \/ call.op = "repeatfunc" /\ call.n.t \notin {"int", "bool", "None"}
BadCallable ==
    \/ TakesPred /\ call.pred = "five"
    \/ call.op = "repeatfunc" /\ call.pred \in {"five", "None"}
Malformed == BadX \/ BadInt \/ BadCallable

\* the recipes whose body is a generator or returns lazy iterators over x
Generators ==
    {"ncycles", "repeatfunc", "unique_everseen", "unique_justseen", "roundrobin",
     "prepend", "append", "partition", "pairwise"}

C21_MalformedCall ==
    call.op # "none" =>
        /\ Malformed =>
               /\ result = Raise("TypeError")
               /\ Untouched
               /\ it = NoIter
        /\ (~Malformed /\ call.op \in Generators /\ result.kind # "raise") =>
               /\ Untouched
               /\ result.kind \notin {"value", "none"}
               /\ call.op = "repeatfunc" => it.calls = 0
        /\ (~Malformed /\ call.op = "first" /\ WellFormed /\ L >= 1 /\ x.kind.onePass) =>
               Taken = 1

C21_Witness ==
    /\ call.op = "quantify" /\ call.pred = "five" /\ call.x = x /\ x.kind.onePass
    /\ L = 3 /\ result = Raise("TypeError") /\ View = S

C21_WitnessLazy ==
    /\ call.op = "pairwise" /\ call.x = IntV(5) /\ result = Raise("TypeError")

C21_WitnessCount ==
    /\ call.op = "repeatfunc" /\ call.pred = "f" /\ call.n.t = "str"
    /\ result = Raise("TypeError") /\ it = NoIter
====
